---- MODULE Spec2Model ----
(***************************************************************************)
(* A model of libetchash/internal.c: seed derivation, the cache builder,   *)
(* the DAG item generator, the full-DAG builder with its progress          *)
(* callback, the hash evaluator in light and full mode, and the life cycle *)
(* of the light context and of the file-backed full context.               *)
(*                                                                         *)
(* Words are unsigned integers of WordBits bits (32 in the program); every *)
(* product and xor is taken modulo 2^WordBits.  A node is a sequence of    *)
(* NODE_WORDS words, an h256 a sequence of H256_WORDS words.  Sizes        *)
(* (cache_size, full_size, file sizes) are in bytes, as in the program.    *)
(***************************************************************************)
EXTENDS Integers, Sequences, FiniteSets, TLC

(***************************************************************************)
(* Bounds of the model.                                                    *)
(***************************************************************************)
\* Bits of a modelled word (uint32_t in the program).
WordBits == 8
\* Iterations of the access loop of etchash_hash (ETCHASH_ACCESSES, 64).
Accesses == 2
\* Iterations of the parent loop of etchash_calculate_dag_item
\* (ETCHASH_DATASET_PARENTS, 256).
DatasetParents == 2
\* Header hashes are the h256 values whose words all equal 0..MaxHeader.
MaxHeader == 1
\* Nonces are 0..MaxNonce and their images in the high word.
MaxNonce == 1
\* The large DAG sizes are BigPages and BigPages + 1 pages of 128 bytes.
BigPages == 100
\* The callback that cancels returns nonzero once percent >= CancelPercent.
CancelPercent == 10
\* Epochs sampled on each side of the activation block by the seed runs.
MaxSeedEpoch == 2

(***************************************************************************)
(* Program constants.                                                      *)
(***************************************************************************)
NODE_WORDS == 16
MIX_WORDS == 32
ETCHASH_CACHE_ROUNDS == 3
ETCHASH_EPOCH_LENGTH == 30000
ETCHASH_NEW_EPOCH_LENGTH == 60000
ETCHASH_ACTIVATION_BLOCK == 11700000
ETCHASH_DAG_MAGIC_NUM_SIZE == 8
FNV_PRIME == 16777619
H256_WORDS == 8
PAGE_SIZE == 4096

\* sizeof(uint32_t) and sizeof(node)
WordBytes == 4
NodeBytes == NODE_WORDS * WordBytes
MIX_NODES == MIX_WORDS \div NODE_WORDS

\* The 8-byte marker of a finished DAG file, and the prefix of a fresh file.
ETCHASH_DAG_MAGIC_NUM == "FEE1DEADBADDCAFE"
NoMagic == "0000000000000000"

RECURSIVE Pow2(_)
Pow2(k) == IF k = 0 THEN 1 ELSE 2 * Pow2(k - 1)

WordMod == Pow2(WordBits)

\* The tuple of the values of a function on 1..n: sequences are kept as
\* tuples, which is how the program holds its arrays.
Array(f) == f \o <<>>

Max(a, b) == IF a < b THEN b ELSE a

(***************************************************************************)
(* Primitives: xor and FNV on words.                                       *)
(***************************************************************************)
RECURSIVE Xor(_, _)
Xor(a, b) ==
    IF a = 0 THEN b
    ELSE IF b = 0 THEN a
    ELSE ((a + b) % 2) + 2 * Xor(a \div 2, b \div 2)

\* The value of a uint32_t expression stored in a word.
ToWord(x) == x % WordMod

\* fnv_hash(x, y) = x * FNV_PRIME ^ y on words.
fnv_hash(x, y) == Xor((ToWord(x) * (FNV_PRIME % WordMod)) % WordMod, ToWord(y))

(***************************************************************************)
(* The Keccak collaborator: two pure functions from a word sequence to 16  *)
(* and to 8 words.  Absorb folds the whole input, position by position.    *)
(***************************************************************************)
RECURSIVE Absorb(_, _, _)
Absorb(in, i, acc) ==
    IF i > Len(in) THEN acc
    ELSE Absorb(in, i + 1, (acc * 31 + in[i] + i) % 65521)

SHA3_512(in) ==
    LET a == Absorb(in, 1, 517 + Len(in))
    IN  Array([j \in 1..NODE_WORDS |-> ((a + j) * (2 * j + 1) + (a \div 7)) % WordMod])

SHA3_256(in) ==
    LET a == Absorb(in, 1, 259 + Len(in))
    IN  Array([j \in 1..H256_WORDS |-> ((a + 3 * j) * (2 * j + 3) + (a \div 11)) % WordMod])

ZeroNode == Array([j \in 1..NODE_WORDS |-> 0])
ZeroH256 == Array([j \in 1..H256_WORDS |-> 0])

(***************************************************************************)
(* Epochs and sizes.                                                       *)
(***************************************************************************)
get_epoch_number(block_number) ==
    LET epoch_length == IF block_number >= ETCHASH_ACTIVATION_BLOCK
                        THEN ETCHASH_NEW_EPOCH_LENGTH
                        ELSE ETCHASH_EPOCH_LENGTH
    IN  block_number \div epoch_length

\* The compiled-in table of cache sizes, each a multiple of sizeof(node)
\* with a prime number of nodes; the table here has the same shape at a
\* size that can be enumerated.
cache_sizes(epoch_number) ==
    IF epoch_number % 2 = 0 THEN NodeBytes * 2 ELSE NodeBytes * 3

\* The number of entries of the table: assert(epoch_number < 2048).
TableEpochs == 2048

\* What etchash_get_cachesize yields when its assertion fails: the process
\* aborts and no size is returned.
Aborted == -1

etchash_get_cachesize(block_number) ==
    LET epoch_number == get_epoch_number(block_number)
    IN  IF epoch_number < TableEpochs THEN cache_sizes(epoch_number) ELSE Aborted

(***************************************************************************)
(* etchash_get_seedhash: the number of Keccak-256 applications and the     *)
(* loop that applies them.                                                 *)
(***************************************************************************)
SeedEpochs(block_number) ==
    LET en == get_epoch_number(block_number)
        epoch == IF block_number >= ETCHASH_ACTIVATION_BLOCK
                 THEN en * ETCHASH_NEW_EPOCH_LENGTH + 1
                 ELSE en * ETCHASH_EPOCH_LENGTH + 1
    IN  epoch \div ETCHASH_EPOCH_LENGTH

SeedLoopOffByOne(i, epochs) == i <= epochs

\* The loop condition of etchash_get_seedhash.
SeedLoopContinues(i, epochs) == i < epochs

\* The loop from index i for at most n iterations, the first half of them
\* and then the rest: an iteration applies Keccak-256 when the loop
\* condition holds at its index.
RECURSIVE SeedLoop(_, _, _, _)
SeedLoop(ret, i, n, epochs) ==
    IF n = 0 THEN ret
    ELSE IF n = 1
    THEN IF SeedLoopContinues(i, epochs) THEN SHA3_256(ret) ELSE ret
    ELSE LET half == SeedLoop(ret, i, n \div 2, epochs)
         IN  IF Len(half) = H256_WORDS
             THEN SeedLoop(half, i + (n \div 2), n - (n \div 2), epochs)
             ELSE half

etchash_get_seedhash(block_number) ==
    LET epochs == SeedEpochs(block_number)
    IN  SeedLoop(ZeroH256, 0, epochs + 1, epochs)

(***************************************************************************)
(* etchash_compute_cache_nodes: SeqMemoHash.  A cache is the sequence of   *)
(* its nodes; nodes[i] of the program is nodes[i + 1] here.  On the        *)
(* little-endian hosts the model describes, fix_endian_arr32 expands to    *)
(* nothing.                                                                *)
(***************************************************************************)
XorNodes(a, b) == Array([w \in 1..NODE_WORDS |-> Xor(a[w], b[w])])

RECURSIVE CacheFill(_, _)
CacheFill(nodes, num_nodes) ==
    IF Len(nodes) = num_nodes THEN nodes
    ELSE CacheFill(Append(nodes, SHA3_512(nodes[Len(nodes)])), num_nodes)

RECURSIVE CacheRound(_, _)
CacheRound(nodes, i) ==
    LET num_nodes == Len(nodes) IN
    IF i = num_nodes THEN nodes
    ELSE LET idx == nodes[i + 1][1] % num_nodes
             data == XorNodes(nodes[((num_nodes - 1 + i) % num_nodes) + 1],
                              nodes[idx + 1])
         IN  CacheRound([nodes EXCEPT ![i + 1] = SHA3_512(data)], i + 1)

RECURSIVE CacheRounds(_, _)
CacheRounds(nodes, j) ==
    IF j = ETCHASH_CACHE_ROUNDS THEN nodes
    ELSE CacheRounds(CacheRound(nodes, 0), j + 1)

\* The size check of etchash_compute_cache_nodes.
CacheSizeValid(cache_size) == cache_size % NodeBytes = 0

\* The nodes etchash_compute_cache_nodes leaves in the cache when it succeeds.
etchash_compute_cache_nodes(cache_size, seed) ==
    CacheRounds(CacheFill(<<SHA3_512(seed)>>, cache_size \div NodeBytes), 0)

(***************************************************************************)
(* etchash_calculate_dag_item.                                             *)
(***************************************************************************)
FnvNodes(a, b) == Array([w \in 1..NODE_WORDS |-> fnv_hash(a[w], b[w])])

RECURSIVE DagParents(_, _, _, _)
DagParents(ret, i, node_index, cache) ==
    IF i = DatasetParents THEN ret
    ELSE LET parent_index ==
                 fnv_hash(Xor(node_index, i), ret[(i % NODE_WORDS) + 1]) % Len(cache)
         IN  DagParents(FnvNodes(ret, cache[parent_index + 1]), i + 1, node_index, cache)

etchash_calculate_dag_item(node_index, cache) ==
    LET init == cache[(node_index % Len(cache)) + 1]
        first == SHA3_512([init EXCEPT ![1] = ToWord(Xor(init[1], node_index))])
    IN  SHA3_512(DagParents(first, 0, node_index, cache))

(***************************************************************************)
(* etchash_hash.  The header hash and the nonce are packed into the first  *)
(* 40 bytes of a buffer: the nonce is stored as one little-endian 64-bit   *)
(* value, which is its low word followed by its high word.                 *)
(***************************************************************************)
NonceLow(nonce) == nonce % WordMod
NonceHigh(nonce) == (nonce \div WordMod) % WordMod

\* s_mix[0].double_words[dw] = v
StoreDoubleWord(buf, dw, v) ==
    [buf EXCEPT ![2 * dw + 1] = NonceLow(v), ![2 * dw + 2] = NonceHigh(v)]

\* memcpy(&buf[offset], &v, 8) of a 64-bit v
StoreBytes64(buf, offset, v) ==
    [buf EXCEPT ![(offset \div WordBytes) + 1] = NonceLow(v),
                ![(offset \div WordBytes) + 2] = NonceHigh(v)]

\* The check etchash_hash makes before it hashes.
HashSizeAccepted(full_size) == full_size % MIX_WORDS = 0

\* sha3-512 of header hash and nonce: s_mix[0]
HashSeed(header_hash, nonce) ==
    LET packed == StoreDoubleWord(header_hash \o ZeroH256, 4, nonce)
    IN  SHA3_512(SubSeq(packed, 1, 10))

\* s_mix[0] replicated across the mix
HashMixInit(s) == Array([w \in 1..MIX_WORDS |-> s[((w - 1) % NODE_WORDS) + 1]])

\* mix[n].words[w] = fnv_hash(mix[n].words[w], dag_node->words[w]) for all w
MixNode(mix, n, dag_node) ==
    Array([w \in 1..MIX_WORDS |->
             IF (w - 1) \div NODE_WORDS = n
             THEN fnv_hash(mix[w], dag_node[((w - 1) % NODE_WORDS) + 1])
             ELSE mix[w]])

\* What the read through dag_node does.  With a full DAG it yields the stored
\* node full_nodes[node_index].  Without one dag_node points at tmp_node,
\* which etchash_calculate_dag_item has just filled for node_index, and the
\* mix loop reads it after the block declaring tmp_node has closed.  The
\* language leaves that read undefined; the builds do one of two things:
\* the read yields the item ("item"), or the build checks the lifetime of
\* stack objects and the read ends the process ("abort").
AfterScopeReads == {"item", "abort"}

\* No node: the read ended the process.
AbortedRead == <<>>

DagNodeRead(full_nodes, cache, node_index, after_scope) ==
    IF full_nodes # <<>> THEN full_nodes[node_index + 1]
    ELSE IF after_scope = "item" THEN etchash_calculate_dag_item(node_index, cache)
    ELSE AbortedRead

\* The mix after the MIX_NODES reads of one access, or AbortedRead.
RECURSIVE HashNodes(_, _, _, _, _, _)
HashNodes(mix, n, index, full_nodes, cache, after_scope) ==
    IF n = MIX_NODES THEN mix
    ELSE LET dag_node == DagNodeRead(full_nodes, cache, MIX_NODES * index + n,
                                     after_scope)
         IN  IF dag_node = AbortedRead THEN AbortedRead
             ELSE HashNodes(MixNode(mix, n, dag_node), n + 1, index,
                            full_nodes, cache, after_scope)

\* The mix after all accesses, or AbortedRead.
RECURSIVE HashAccesses(_, _, _, _, _, _, _)
HashAccesses(mix, i, s, num_full_pages, full_nodes, cache, after_scope) ==
    IF i = Accesses THEN mix
    ELSE LET index == fnv_hash(Xor(s[1], i), mix[(i % MIX_WORDS) + 1]) % num_full_pages
             mixed == HashNodes(mix, 0, index, full_nodes, cache, after_scope)
         IN  IF mixed = AbortedRead THEN AbortedRead
             ELSE HashAccesses(mixed, i + 1, s, num_full_pages, full_nodes,
                               cache, after_scope)

RECURSIVE HashCompress(_, _)
HashCompress(mix, w) ==
    IF w = MIX_WORDS THEN mix
    ELSE LET r1 == fnv_hash(mix[w + 1], mix[w + 2])
             r2 == fnv_hash(r1, mix[w + 3])
             r3 == fnv_hash(r2, mix[w + 4])
         IN  HashCompress([mix EXCEPT ![(w \div 4) + 1] = r3], w + 4)

\* The outcome of a call of etchash_hash: "false" (size rejected), "sigfpe"
\* (index taken modulo a page count of 0), "abort" (the process ended at the
\* read of tmp_node, after one item was synthesized) or "true" with the
\* mix_hash and the result it stored in *ret; otherwise it stores nothing in
\* *ret.  dag_reads counts the DAG nodes the call read or synthesized.
etchash_hash(full_nodes, cache, full_size, header_hash, nonce, after_scope) ==
    LET page_size == WordBytes * MIX_WORDS
        num_full_pages == full_size \div page_size
        s == HashSeed(header_hash, nonce)
        accessed == HashAccesses(HashMixInit(s), 0, s, num_full_pages,
                                 full_nodes, cache, after_scope)
        mix == HashCompress(accessed, 0)
        mix_hash == SubSeq(mix, 1, MIX_WORDS \div 4)
    IN  IF ~HashSizeAccepted(full_size)
        THEN [outcome |-> "false", dag_reads |-> 0]
        ELSE IF num_full_pages = 0
        THEN [outcome |-> "sigfpe", dag_reads |-> 0]
        ELSE IF accessed = AbortedRead
        THEN [outcome |-> "abort", dag_reads |-> 1]
        ELSE [outcome |-> "true", mix_hash |-> mix_hash,
              result |-> SHA3_256(s \o mix_hash),
              dag_reads |-> Accesses * MIX_NODES]

\* A mix_hash or result of etchash_return_value_t ret that nothing has
\* written.  ret is a local of the two compute functions and is not
\* initialized, so the field holds whatever bytes the stack held: any value
\* at all.  No word of it is defined here, and nothing reads one.
IndeterminateH256 == <<>>

\* The value the compute functions return for a call, with the arguments
\* of the call: success and, when etchash_hash stored them, its mix_hash
\* and result; the fields of ret as they were otherwise.
ReturnValue(r, full_size, header_hash, nonce) ==
    [outcome |-> r.outcome, header_hash |-> header_hash, nonce |-> nonce,
     full_size |-> full_size,
     mix_hash |-> IF r.outcome = "true" THEN r.mix_hash ELSE IndeterminateH256,
     result |-> IF r.outcome = "true" THEN r.result ELSE IndeterminateH256,
     dag_reads |-> r.dag_reads]

(***************************************************************************)
(* etchash_quick_hash.                                                     *)
(***************************************************************************)
QuickHashNoSeedHash(header_hash, nonce, mix_hash) ==
    LET buf == StoreBytes64(header_hash \o ZeroH256 \o ZeroH256, 32, nonce)
    IN  SHA3_256(SubSeq(buf, 1, NODE_WORDS) \o mix_hash)

etchash_quick_hash(header_hash, nonce, mix_hash) ==
    LET buf == StoreBytes64(header_hash \o ZeroH256 \o ZeroH256, 32, nonce)
        hashed == SHA3_512(SubSeq(buf, 1, 10)) \o SubSeq(buf, NODE_WORDS + 1, 24)
        filled == SubSeq(hashed, 1, NODE_WORDS) \o mix_hash
    IN  SHA3_256(filled)

(***************************************************************************)
(* etchash_compute_full_data: the size check, the loop condition, the      *)
(* condition under which the callback is consulted, and the percent it is  *)
(* given.                                                                  *)
(***************************************************************************)
FullSizeValid(full_size) ==
    /\ full_size % (WordBytes * MIX_WORDS) = 0
    /\ full_size % NodeBytes = 0

MaxNInPages(full_size) == full_size \div (WordBytes * MIX_WORDS)

\* max_n = full_size / sizeof(node)
MaxN(full_size) == full_size \div NodeBytes

BuildLoopStopsEarly(n, max_n) == n < max_n - 1

\* n != max_n
BuildLoopContinues(n, max_n) == n # max_n

CallbackDueEvery100(n, max_n) == n % 100 = 0

\* n % (max_n / 100) == 0, evaluated only when max_n / 100 is not 0
CallbackDue(n, max_n) == n % (max_n \div 100) = 0

\* The number of bits of x.
RECURSIVE BitLen(_)
BitLen(x) == IF x = 0 THEN 0 ELSE 1 + BitLen(x \div 2)

\* a / b rounded to the nearest whole number, a tie to the even one: the
\* rounding of every floating-point operation.
RoundNearestEven(a, b) ==
    LET q == a \div b
        r == a % b
    IN  IF 2 * r > b \/ (2 * r = b /\ q % 2 = 1) THEN q + 1 ELSE q

\* (float)max_n is FloatMantissa(max_n) * 2^(BitLen(max_n) - 24): max_n
\* kept to 24 significant bits.
FloatMantissa(max_n) ==
    LET bl == BitLen(max_n)
    IN  IF bl <= 24 THEN max_n * Pow2(24 - bl)
        ELSE RoundNearestEven(max_n, Pow2(bl - 24))

\* <<quotient, remainder>> of rem * 2^steps + q * 2^steps * M by M, one
\* bit of the quotient at a time.
RECURSIVE DivPow2(_, _, _, _)
DivPow2(rem, q, steps, M) ==
    IF steps = 0 THEN <<q, rem>>
    ELSE IF 2 * rem >= M
    THEN DivPow2(2 * rem - M, 2 * q + 1, steps - 1, M)
    ELSE DivPow2(2 * rem, 2 * q, steps - 1, M)

\* progress_change = 1.0f / max_n is the single-precision quotient of 1 by
\* (float)max_n, which is ProgressChange(max_n) * 2^-(23 + BitLen(max_n)):
\* 2^47 / FloatMantissa(max_n) rounded to the nearest whole number.
ProgressChange(max_n) ==
    LET M == FloatMantissa(max_n)
        d == DivPow2(Pow2(23) % M, Pow2(23) \div M, 24, M)
    IN  IF 2 * d[2] > M THEN d[1] + 1 ELSE d[1]

\* Whole numbers beyond the width of a machine word are held as sequences
\* of digits of 15 bits, the lowest first.
Limb == Pow2(15)

\* The five digits of n * c, for n below 2^30 and c below 2^31.
Product(n, c) ==
    LET n0 == n % Limb
        n1 == n \div Limb
        c0 == c % Limb
        c1 == (c \div Limb) % Limb
        c2 == c \div (Limb * Limb)
        r0 == n0 * c0
        r1 == n0 * c1 + n1 * c0 + (r0 \div Limb)
        r2 == n0 * c2 + n1 * c1 + (r1 \div Limb)
        r3 == n1 * c2 + (r2 \div Limb)
    IN  <<r0 % Limb, r1 % Limb, r2 % Limb, r3 % Limb, r3 \div Limb>>

\* The index of the highest digit that is not 0 (1 when there is none).
RECURSIVE TopDigit(_, _)
TopDigit(d, i) == IF i = 1 \/ d[i] # 0 THEN i ELSE TopDigit(d, i - 1)

\* The number of bits of the number d holds.
DigitsBitLen(d) ==
    LET top == TopDigit(d, Len(d))
    IN  15 * (top - 1) + BitLen(d[top])

\* The number d holds divided by 2^g, for a quotient that fits a word.
RECURSIVE DigitsShift(_, _, _)
DigitsShift(d, g, i) ==
    IF i > Len(d) THEN 0
    ELSE IF d[i] = 0 \/ 15 * i <= g THEN DigitsShift(d, g, i + 1)
    ELSE IF 15 * (i - 1) >= g
    THEN d[i] * Pow2(15 * (i - 1) - g) + DigitsShift(d, g, i + 1)
    ELSE (d[i] \div Pow2(g - 15 * (i - 1))) + DigitsShift(d, g, i + 1)

\* Whether the number d holds, taken modulo 2^g, is at most limit, for a
\* limit below 2^15 and g at least 15.
DigitsLowAtMost(d, g, limit) ==
    /\ d[1] <= limit
    /\ \A i \in 2..Len(d) :
          \/ 15 * (i - 1) >= g
          \/ IF 15 * i <= g THEN d[i] = 0
             ELSE d[i] % Pow2(g - 15 * (i - 1)) = 0

ProgressPercentOffByOne(n, max_n) ==
    DigitsShift(Product(n, 100 * ProgressChange(max_n)), 23 + BitLen(max_n), 1) + 2

\* (unsigned int)(ceil(progress * 100.0f)) after n additions of
\* progress_change, for max_n below 2^29 (no DAG of the size table has
\* more nodes).  progress is n * progress_change, the additions being exact
\* in double precision; the product by 100 is n * 100 * ProgressChange
\* kept to 53 significant bits, in units of 2^-g; the value passed is the
\* ceiling of that.  Rounding to 53 bits never crosses a whole number and
\* reaches the one below when the product is above it by no more than half
\* of the last bit kept.
ProgressPercent(n, max_n) ==
    LET g == 23 + BitLen(max_n)
        product == Product(n, 100 * ProgressChange(max_n))
        dropped == Max(0, DigitsBitLen(product) - 53)
        whole == DigitsShift(product, g, 1)
    IN  IF DigitsLowAtMost(product, g, 0) THEN whole
        ELSE IF dropped >= 1 /\ DigitsLowAtMost(product, g, Pow2(dropped - 1))
        THEN whole
        ELSE whole + 1

\* The callbacks a caller passes: none, one that always returns 0, and one
\* that returns nonzero once the percent reaches CancelPercent.
Callbacks == {"NULL", "zero", "cancel"}

CallbackReturn(cb, percent) ==
    IF cb = "cancel" /\ percent >= CancelPercent THEN 1 ELSE 0

(***************************************************************************)
(* The DAG file, as etchash_io_prepare finds and leaves it, and the        *)
(* memory mapping.                                                         *)
(***************************************************************************)
NoFile == [exists |-> FALSE, size |-> 0, magic |-> NoMagic, nodes |-> <<>>, filled |-> 0]

\* A file created at a given size: zero bytes throughout.  filled counts the
\* leading nodes written since the file was created.
FreshFile(size) ==
    [exists |-> TRUE, size |-> size, magic |-> NoMagic,
     nodes |-> Array([k \in 1..((size - ETCHASH_DAG_MAGIC_NUM_SIZE) \div NodeBytes) |-> ZeroNode]),
     filled |-> 0]

\* etchash_io_prepare(dirname, seedhash, &f, file_size, force_create) when it
\* does not fail: the return code, the file it leaves and whether f is open.
etchash_io_prepare(f, file_size, force_create) ==
    IF ~force_create /\ f.exists
    THEN IF f.size # file_size + ETCHASH_DAG_MAGIC_NUM_SIZE
         THEN [rc |-> "ETCHASH_IO_MEMO_SIZE_MISMATCH", file |-> f, open |-> FALSE]
         ELSE IF f.magic = ETCHASH_DAG_MAGIC_NUM
         THEN [rc |-> "ETCHASH_IO_MEMO_MATCH", file |-> f, open |-> TRUE]
         ELSE [rc |-> "ETCHASH_IO_MEMO_MISMATCH", file |-> f, open |-> TRUE]
    ELSE [rc |-> "ETCHASH_IO_MEMO_MISMATCH",
          file |-> FreshFile(file_size + ETCHASH_DAG_MAGIC_NUM_SIZE), open |-> TRUE]

\* The address mmap returns: some multiple of the page size.
MmapBase == 16 * PAGE_SIZE

\* The pages of a mapping of len bytes at addr.
PagesOf(addr, len) ==
    IF len = 0 THEN {} ELSE (addr \div PAGE_SIZE)..((addr + len - 1) \div PAGE_SIZE)

\* munmap(addr, len) on the set of mapped pages: EINVAL, and nothing
\* unmapped, unless addr is a multiple of the page size.
Munmap(pages, addr, len) ==
    IF addr % PAGE_SIZE # 0 THEN pages ELSE pages \ PagesOf(addr, len)

\* etchash_mmap: the mapping covers file_size + 8 bytes and ret->data points
\* past the magic number.
MmapLength(file_size) == file_size + ETCHASH_DAG_MAGIC_NUM_SIZE
MmapData(base) == base + ETCHASH_DAG_MAGIC_NUM_SIZE

(***************************************************************************)
(* State.                                                                  *)
(***************************************************************************)
VARIABLES
    proc,       \* "running", or how the process ended: "segv", "sigfpe",
                \* "sigabrt" (assert), "abort" (read of tmp_node), "killed"
    heap,       \* the live heap blocks: "light", "cache", "full"
    light,      \* the light context the caller holds, ptr = "NULL" when none
    lightCall,  \* the last light constructor call and what it returned
    file,       \* the DAG file of the directory and seed in use
    fileOpen,   \* whether the FILE* of the last full constructor call is open
    mapped,     \* the pages of the last etchash_mmap mapping still mapped
    full,       \* the full constructor call in progress, or the context it returned
    lightRet,   \* the last return value of etchash_light_compute_internal
    fullRet,    \* the last return value of etchash_full_compute
    seed        \* a call of etchash_get_seedhash and the call completed before it

vars == <<proc, heap, light, lightCall, file, fileOpen, mapped, full,
          lightRet, fullRet, seed>>

NullLight == [ptr |-> "NULL", cache |-> <<>>, cache_size |-> 0, block_number |-> 0]

NoLightCall == [fn |-> "none", internal |-> "none", ret |-> "none"]

FullIdle ==
    [state |-> "idle", file_size |-> 0, callback |-> "NULL", io |-> "none",
     data |-> 0, n |-> 0, calls |-> 0, percent |-> 0, cancelled |-> FALSE,
     magic_written |-> FALSE]

NoRet ==
    [outcome |-> "none", header_hash |-> ZeroH256, nonce |-> 0, full_size |-> 0,
     mix_hash |-> ZeroH256, result |-> ZeroH256, dag_reads |-> 0]

SeedIdle ==
    [pc |-> "idle", block |-> 0, i |-> 0, ret |-> ZeroH256,
     prev |-> [done |-> FALSE, block |-> 0, i |-> 0, ret |-> ZeroH256]]

(***************************************************************************)
(* Inputs.                                                                 *)
(***************************************************************************)
Headers == {Array([j \in 1..H256_WORDS |-> v]) : v \in 0..MaxHeader}
Nonces == (0..MaxNonce) \cup {WordMod * k + (k - 1) : k \in 1..MaxNonce}
CacheSizes == {NodeBytes * 2, NodeBytes + 36}
DagSizes == {WordBytes * MIX_WORDS * k : k \in {1, BigPages, BigPages + 1}}
SmallDagSizes == {WordBytes * MIX_WORDS * k : k \in 1..2}
\* 64 and 160 are multiples of MIX_WORDS but not of the page size; 100 is
\* a multiple of neither.
BadSizes == {NodeBytes, NodeBytes + 36, WordBytes * MIX_WORDS + MIX_WORDS}
\* Block 0 and the first block beyond the size table.
LightBlocks == {0, TableEpochs * ETCHASH_NEW_EPOCH_LENGTH}
SeedBlocks ==
    {e * ETCHASH_EPOCH_LENGTH + d :
        e \in 0..MaxSeedEpoch, d \in {0, 1, ETCHASH_EPOCH_LENGTH - 1}}
    \cup {ETCHASH_ACTIVATION_BLOCK - 1}
    \cup {ETCHASH_ACTIVATION_BLOCK + e * ETCHASH_NEW_EPOCH_LENGTH + d :
            e \in 0..MaxSeedEpoch, d \in {0, 1, ETCHASH_NEW_EPOCH_LENGTH - 1}}

Init ==
    /\ proc = "running"
    /\ heap = {}
    /\ light = NullLight
    /\ lightCall = NoLightCall
    /\ file = NoFile
    /\ fileOpen = FALSE
    /\ mapped = {}
    /\ full = FullIdle
    /\ lightRet = NoRet
    /\ fullRet = NoRet
    /\ seed = SeedIdle

(***************************************************************************)
(* The light context.                                                      *)
(***************************************************************************)
\* etchash_light_new_internal: the context it returns, NullLight for NULL.
\* Every block it allocated is freed again on the paths that return NULL.
etchash_light_new_internal(cache_size, seedhash, fault) ==
    IF fault = "calloc" THEN NullLight
    ELSE IF fault = "malloc" THEN NullLight
    ELSE IF ~CacheSizeValid(cache_size) THEN NullLight
    ELSE [ptr |-> "ctx", cache |-> etchash_compute_cache_nodes(cache_size, seedhash),
          cache_size |-> cache_size, block_number |-> 0]

LightQuiet == full.state \in {"idle", "alive", "null"}

\* The state after etchash_light_new_internal returned ret.
LightNewInternalReturns(ret) ==
    /\ light' = ret
    /\ heap' = IF ret.ptr = "ctx" THEN heap \cup {"light", "cache"} ELSE heap
    /\ lightCall' = [fn |-> "etchash_light_new_internal", internal |-> ret.ptr,
                     ret |-> ret.ptr]
    /\ lightRet' = NoRet
    /\ UNCHANGED <<proc, file, fileOpen, mapped, full, fullRet, seed>>

LightNewInternal(cache_size, block, fault) ==
    /\ proc = "running"
    /\ light.ptr = "NULL"
    /\ LightQuiet
    /\ LightNewInternalReturns(
          etchash_light_new_internal(cache_size, etchash_get_seedhash(block), fault))

\* etchash_light_new stores block_number through the pointer it got from
\* etchash_light_new_internal without testing it: with NULL the store
\* faults and the call never returns.  For a block beyond the size table
\* the assertion of etchash_get_cachesize ends the process before
\* etchash_light_new_internal is called.
LightNewStores(block, cache_size, ret) ==
    /\ IF cache_size = Aborted
       THEN /\ proc' = "sigabrt"
            /\ lightCall' = [fn |-> "etchash_light_new", internal |-> "none",
                             ret |-> "abort"]
            /\ UNCHANGED <<light, heap>>
       ELSE IF ret.ptr = "NULL"
       THEN /\ proc' = "segv"
            /\ lightCall' = [fn |-> "etchash_light_new", internal |-> "NULL",
                             ret |-> "null_deref"]
            /\ UNCHANGED <<light, heap>>
       ELSE /\ light' = [ret EXCEPT !.block_number = block]
            /\ heap' = heap \cup {"light", "cache"}
            /\ lightCall' = [fn |-> "etchash_light_new", internal |-> "ctx",
                             ret |-> "ctx"]
            /\ UNCHANGED proc
    /\ lightRet' = NoRet
    /\ UNCHANGED <<file, fileOpen, mapped, full, fullRet, seed>>

LightNew(block, fault) ==
    /\ proc = "running"
    /\ light.ptr = "NULL"
    /\ LightQuiet
    /\ LightNewStores(block, etchash_get_cachesize(block),
                      etchash_light_new_internal(etchash_get_cachesize(block),
                                                 etchash_get_seedhash(block), fault))

LightDelete ==
    /\ proc = "running"
    /\ light.ptr = "ctx"
    /\ LightQuiet
    /\ light' = NullLight
    /\ heap' = heap \ {"light", "cache"}
    /\ lightRet' = NoRet
    /\ UNCHANGED <<proc, lightCall, file, fileOpen, mapped, full, fullRet, seed>>

\* etchash_light_compute_internal(light, full_size, header_hash, nonce);
\* after_scope is what the build makes of the read of tmp_node (see
\* DagNodeRead).
LightComputeReturns(r, full_size, header_hash, nonce) ==
    /\ proc' = IF r.outcome \in {"sigfpe", "abort"} THEN r.outcome ELSE proc
    /\ lightRet' = ReturnValue(r, full_size, header_hash, nonce)
    /\ UNCHANGED <<heap, light, lightCall, file, fileOpen, mapped, full,
                   fullRet, seed>>

LightComputeInternal(full_size, header_hash, nonce, after_scope) ==
    /\ proc = "running"
    /\ light.ptr = "ctx"
    /\ LightQuiet
    /\ LightComputeReturns(
          etchash_hash(<<>>, light.cache, full_size, header_hash, nonce,
                       after_scope),
          full_size, header_hash, nonce)

(***************************************************************************)
(* The full context: etchash_full_new_internal, in three steps.  The call  *)
(* yields to the caller only through the callback inside the build loop,   *)
(* so the steps are: everything up to the loop, one iteration of the loop, *)
(* and everything after it.                                                *)
(***************************************************************************)
\* The exits of etchash_full_new_internal.  fail_free_full_data unmaps
\* full_size bytes at ret->data, then falls into fail_close_file and
\* fail_free_full.
FailFreeFull(call) ==
    /\ full' = [call EXCEPT !.state = "null"]
    /\ heap' = heap \ {"full"}

FailCloseFile(call) ==
    /\ fileOpen' = FALSE
    /\ FailFreeFull(call)

FailFreeFullData(call, pages) ==
    /\ mapped' = Munmap(pages, call.data, call.file_size)
    /\ FailCloseFile(call)

FullNewBegin(full_size, callback, fault) ==
    LET first == etchash_io_prepare(file, full_size, FALSE)
        prepared == IF first.rc = "ETCHASH_IO_MEMO_SIZE_MISMATCH"
                    THEN etchash_io_prepare(file, full_size, TRUE)
                    ELSE first
        pages == PagesOf(MmapBase, MmapLength(full_size))
        call == [FullIdle EXCEPT !.file_size = full_size, !.callback = callback]
    IN  /\ proc = "running"
        /\ light.ptr = "ctx"
        /\ full.state \in {"idle", "null"}
        /\ lightRet' = NoRet
        /\ fullRet' = NoRet
        /\ UNCHANGED <<proc, light, lightCall, seed>>
        /\ IF fault = "calloc"
           THEN /\ full' = [call EXCEPT !.state = "null"]
                /\ UNCHANGED <<heap, file, fileOpen, mapped>>
           ELSE IF fault = "io_prepare"
           THEN /\ FailFreeFull([call EXCEPT !.io = "ETCHASH_IO_FAIL"])
                /\ UNCHANGED <<file, fileOpen, mapped>>
           ELSE IF first.rc = "ETCHASH_IO_MEMO_MATCH"
           THEN IF fault = "mmap"
                THEN /\ FailCloseFile([call EXCEPT !.io = first.rc])
                     /\ UNCHANGED <<file, mapped>>
                ELSE /\ full' = [call EXCEPT !.io = first.rc, !.state = "alive",
                                             !.data = MmapData(MmapBase)]
                     /\ heap' = heap \cup {"full"}
                     /\ fileOpen' = TRUE
                     /\ mapped' = pages
                     /\ UNCHANGED file
           ELSE IF first.rc = "ETCHASH_IO_MEMO_SIZE_MISMATCH" /\ fault = "recreate"
           THEN /\ FailFreeFull([call EXCEPT !.io = first.rc])
                /\ fileOpen' = FALSE
                /\ UNCHANGED <<file, mapped>>
           ELSE /\ file' = prepared.file
                /\ IF fault = "mmap"
                   THEN /\ FailCloseFile([call EXCEPT !.io = first.rc])
                        /\ UNCHANGED mapped
                   ELSE IF ~FullSizeValid(full_size)
                   THEN FailFreeFullData(
                            [call EXCEPT !.io = first.rc, !.data = MmapData(MmapBase)],
                            pages)
                   ELSE /\ full' = [call EXCEPT !.io = first.rc, !.state = "building",
                                                !.data = MmapData(MmapBase)]
                        /\ heap' = heap \cup {"full"}
                        /\ fileOpen' = TRUE
                        /\ mapped' = pages

\* full_nodes[n] = etchash_calculate_dag_item(n, light), through the mapping
WriteNode(f, n, item) ==
    [f EXCEPT !.nodes[n + 1] = item, !.filled = Max(@, n + 1)]

\* One iteration of the loop of etchash_compute_full_data, with the percent
\* the callback is given when it is consulted and the item the iteration
\* stores.
BuildIteration(n, max_n, percent, item) ==
    LET consult == full.callback # "NULL"
    IN  IF consult /\ max_n \div 100 = 0
        THEN /\ proc' = "sigfpe"
             /\ UNCHANGED <<heap, file, fileOpen, mapped, full>>
        ELSE IF consult /\ CallbackDue(n, max_n)
        THEN IF CallbackReturn(full.callback, percent) # 0
             THEN /\ FailFreeFullData(
                         [full EXCEPT !.calls = @ + 1, !.percent = percent,
                                      !.cancelled = TRUE], mapped)
                  /\ UNCHANGED <<proc, file>>
             ELSE /\ full' = [full EXCEPT !.calls = @ + 1, !.percent = percent,
                                          !.n = n + 1]
                  /\ file' = WriteNode(file, n, item)
                  /\ UNCHANGED <<proc, heap, fileOpen, mapped>>
        ELSE /\ full' = [full EXCEPT !.n = n + 1]
             /\ file' = WriteNode(file, n, item)
             /\ UNCHANGED <<proc, heap, fileOpen, mapped>>

BuildStep ==
    /\ proc = "running"
    /\ full.state = "building"
    /\ BuildLoopContinues(full.n, MaxN(full.file_size))
    /\ UNCHANGED <<light, lightCall, lightRet, fullRet, seed>>
    /\ BuildIteration(full.n, MaxN(full.file_size),
                      ProgressPercent(full.n, MaxN(full.file_size)),
                      etchash_calculate_dag_item(full.n, light.cache))

\* After the loop: fseek to the start, fwrite the magic number, fflush.  When
\* fflush fails the magic number is still in the stream's buffer, and the
\* fclose of the failure path gets it into the file ("fflush") or fails as
\* well ("fflush_fclose").
Finalize(fault) ==
    /\ proc = "running"
    /\ full.state = "building"
    /\ ~BuildLoopContinues(full.n, MaxN(full.file_size))
    /\ UNCHANGED <<proc, light, lightCall, lightRet, fullRet, seed>>
    /\ IF fault \in {"fseek", "fwrite"}
       THEN /\ FailFreeFullData(full, mapped)
            /\ UNCHANGED file
       ELSE IF fault \in {"fflush", "fflush_fclose"}
       THEN /\ FailFreeFullData(full, mapped)
            /\ file' = IF fault = "fflush"
                       THEN [file EXCEPT !.magic = ETCHASH_DAG_MAGIC_NUM]
                       ELSE file
       ELSE /\ full' = [full EXCEPT !.state = "alive", !.magic_written = TRUE]
            /\ file' = [file EXCEPT !.magic = ETCHASH_DAG_MAGIC_NUM]
            /\ UNCHANGED <<heap, fileOpen, mapped>>

\* The process is killed while the DAG is being built.
Kill ==
    /\ proc = "running"
    /\ full.state = "building"
    /\ proc' = "killed"
    /\ UNCHANGED <<heap, light, lightCall, file, fileOpen, mapped, full,
                   lightRet, fullRet, seed>>

\* etchash_full_compute: etchash_hash over full->data with no light context.
FullComputeReturns(r, header_hash, nonce) ==
    /\ proc' = IF r.outcome \in {"sigfpe", "abort"} THEN r.outcome ELSE proc
    /\ fullRet' = ReturnValue(r, full.file_size, header_hash, nonce)
    /\ UNCHANGED <<heap, light, lightCall, file, fileOpen, mapped, full,
                   lightRet, seed>>

FullCompute(header_hash, nonce) ==
    /\ proc = "running"
    /\ full.state = "alive"
    /\ FullComputeReturns(
          etchash_hash(file.nodes, <<>>, full.file_size, header_hash, nonce, "item"),
          header_hash, nonce)

\* etchash_full_delete: munmap(full->data, full->file_size), fclose, free.
FullDelete ==
    /\ proc = "running"
    /\ full.state = "alive"
    /\ mapped' = Munmap(mapped, full.data, full.file_size)
    /\ fileOpen' = FALSE
    /\ heap' = heap \ {"full"}
    /\ full' = FullIdle
    /\ fullRet' = NoRet
    /\ UNCHANGED <<proc, light, lightCall, file, lightRet, seed>>

(***************************************************************************)
(* etchash_get_seedhash, one Keccak-256 application at a time.             *)
(***************************************************************************)
SeedBegin(block_number) ==
    /\ seed.pc \in {"idle", "done"}
    /\ seed' = [pc |-> "loop", block |-> block_number, i |-> 0, ret |-> ZeroH256,
                prev |-> IF seed.pc = "done"
                         THEN [done |-> TRUE, block |-> seed.block, i |-> seed.i,
                               ret |-> seed.ret]
                         ELSE seed.prev]
    /\ UNCHANGED <<proc, heap, light, lightCall, file, fileOpen, mapped, full,
                   lightRet, fullRet>>

SeedStep ==
    /\ seed.pc = "loop"
    /\ seed' = IF SeedLoopContinues(seed.i, SeedEpochs(seed.block))
               THEN [seed EXCEPT !.ret = SHA3_256(@), !.i = @ + 1]
               ELSE [seed EXCEPT !.pc = "done"]
    /\ UNCHANGED <<proc, heap, light, lightCall, file, fileOpen, mapped, full,
                   lightRet, fullRet>>

(***************************************************************************)
(* Specifications.  Each call fails at no step or at one: a call ends at   *)
(* the first step that fails.                                              *)
(*                                                                         *)
(* Spec drives the life cycle of the contexts and of the DAG file, with    *)
(* every callback, every DAG size and every failure.  SpecHash drives the  *)
(* hash evaluator in both modes over DAGs of one and two pages; it keeps   *)
(* one return value of each mode, the light one computed first and the     *)
(* full one for the same header hash and nonce.  SpecSeed                  *)
(* drives etchash_get_seedhash.                                            *)
(***************************************************************************)
LightFaults == {"none", "calloc", "malloc"}
FullNewFaults == {"none", "calloc", "io_prepare", "recreate", "mmap"}
FinalizeFaults == {"none", "fseek", "fwrite", "fflush", "fflush_fclose"}

Next ==
    \/ \E block \in LightBlocks, fault \in LightFaults : LightNew(block, fault)
    \/ LightDelete
    \/ \E full_size \in DagSizes \cup BadSizes, callback \in Callbacks,
          fault \in FullNewFaults :
          FullNewBegin(full_size, callback, fault)
    \/ BuildStep
    \/ \E fault \in FinalizeFaults : Finalize(fault)
    \/ Kill
    \/ FullDelete

Spec == Init /\ [][Next]_vars

NextHash ==
    \/ \E cache_size \in CacheSizes, fault \in LightFaults :
          LightNewInternal(cache_size, 0, fault)
    \/ LightNew(ETCHASH_EPOCH_LENGTH, "none")
    \/ LightDelete
    \/ /\ lightRet = NoRet
       /\ \E full_size \in SmallDagSizes \cup BadSizes, header_hash \in Headers,
             nonce \in Nonces, after_scope \in AfterScopeReads :
             /\ fullRet # NoRet => /\ header_hash = fullRet.header_hash
                                   /\ nonce = fullRet.nonce
             /\ LightComputeInternal(full_size, header_hash, nonce, after_scope)
    \/ \E full_size \in SmallDagSizes : FullNewBegin(full_size, "NULL", "none")
    \/ BuildStep
    \/ Finalize("none")
    \/ /\ fullRet = NoRet
       /\ \E header_hash \in Headers, nonce \in Nonces :
             /\ lightRet # NoRet => /\ header_hash = lightRet.header_hash
                                    /\ nonce = lightRet.nonce
             /\ FullCompute(header_hash, nonce)
    \/ FullDelete

SpecHash == Init /\ [][NextHash]_vars

NextSeed ==
    \/ \E block_number \in SeedBlocks : SeedBegin(block_number)
    \/ SeedStep

SpecSeed == Init /\ [][NextSeed]_vars

(***************************************************************************)
(* Properties.                                                             *)
(***************************************************************************)
PageBytes == WordBytes * MIX_WORDS

\* The stored DAG is the one etchash_compute_full_data fills from the light
\* context the caller holds.
DagFilledFromLight ==
    /\ light.ptr = "ctx"
    /\ full.state = "alive"
    /\ \A k \in 1..Len(file.nodes) :
          file.nodes[k] = etchash_calculate_dag_item(k - 1, light.cache)

BothComputed ==
    /\ lightRet.outcome # "none"
    /\ fullRet.outcome # "none"
    /\ lightRet.header_hash = fullRet.header_hash
    /\ lightRet.nonce = fullRet.nonce
    /\ lightRet.full_size = fullRet.full_size
    /\ DagFilledFromLight

LightEqualsFullWhenReturned ==
    (BothComputed /\ lightRet.outcome # "abort") =>
        /\ lightRet.outcome = fullRet.outcome
        /\ lightRet.mix_hash = fullRet.mix_hash
        /\ lightRet.result = fullRet.result

\* C2: whenever light or full compute succeeds with (mix_hash, result),
\* etchash_quick_hash of the same header hash, nonce and mix_hash is result.
C2_QuickHashRoundTrip ==
    \A r \in {lightRet, fullRet} :
        r.outcome = "true" =>
            etchash_quick_hash(r.header_hash, r.nonce, r.mix_hash) = r.result

\* Both modes have succeeded on a nonce whose high word is not zero.
C2_Witness ==
    /\ lightRet.outcome = "true"
    /\ fullRet.outcome = "true"
    /\ lightRet.nonce >= WordMod
    /\ fullRet.nonce = lightRet.nonce

\* C3: the magic number is written last: whenever the DAG file starts with
\* the magic number, every node of the file has been written.
C3_MagicWrittenLast ==
    (file.exists /\ file.magic = ETCHASH_DAG_MAGIC_NUM) =>
        file.filled = Len(file.nodes)

\* A build over a mismatching file has written more than one page of nodes
\* and then the magic number.
C3_Witness ==
    /\ full.magic_written
    /\ full.io = "ETCHASH_IO_MEMO_MISMATCH"
    /\ file.magic = ETCHASH_DAG_MAGIC_NUM
    /\ file.filled > MIX_NODES

\* C4: a context is returned without any node computed, any callback call
\* or any write exactly on a match; on a mismatch or a size mismatch it is
\* returned only after every node was computed and the magic number written.
C4_RebuildIffNotMatch ==
    full.state = "alive" =>
        /\ full.io \in {"ETCHASH_IO_MEMO_MATCH", "ETCHASH_IO_MEMO_MISMATCH",
                        "ETCHASH_IO_MEMO_SIZE_MISMATCH"}
        /\ full.io = "ETCHASH_IO_MEMO_MATCH" =>
              /\ full.n = 0
              /\ full.calls = 0
              /\ ~full.magic_written
        /\ full.io # "ETCHASH_IO_MEMO_MATCH" =>
              /\ full.n = Len(file.nodes)
              /\ file.filled = Len(file.nodes)
              /\ full.magic_written
              /\ file.magic = ETCHASH_DAG_MAGIC_NUM

\* A context returned on a match although a callback was passed.
C4_Witness ==
    /\ full.state = "alive"
    /\ full.io = "ETCHASH_IO_MEMO_MATCH"
    /\ full.callback # "NULL"
    /\ Len(file.nodes) > MIX_NODES

\* C5 as stated: every percent passed to the callback lies in 0..99 and the
\* percents passed during one build never decrease.
C5_PercentBelow100 ==
    /\ [](full.calls > 0 => full.percent \in 0..99)
    /\ [][(full.calls > 0 /\ full'.calls = full.calls + 1)
             => full'.percent >= full.percent]_vars

\* Node counts of DAGs of 1 GiB (the first epoch) and of 2 GiB, which no
\* build of the specification reaches one iteration at a time.
LargeNodeCounts == {Pow2(24) - 30, Pow2(25) + 5970}

\* The last n of a build at which the callback is consulted.
LastCallback(max_n) ==
    LET step == max_n \div 100
    IN  step * ((max_n - 1) \div step)

\* C5 as amended: every percent passed to the callback lies in 0..101, and
\* in 0..100 for fewer than 2^24 / 100 nodes; the percents passed during
\* one build never decrease; the last percent of a large DAG lies in
\* 0..101 as well.
C5_PercentUpTo101 ==
    /\ [](full.calls > 0 =>
            /\ full.percent \in 0..101
            /\ MaxN(full.file_size) < Pow2(24) \div 100 => full.percent <= 100)
    /\ [](\A max_n \in LargeNodeCounts :
            ProgressPercent(LastCallback(max_n), max_n) \in 0..101)
    /\ [][(full.calls > 0 /\ full'.calls = full.calls + 1)
             => full'.percent >= full.percent]_vars

\* The callback has been called several times and was last given 100, and
\* the last percent of a DAG of 2 GiB is 101.
C5_Witness ==
    /\ full.calls > 1
    /\ full.percent = 100
    /\ ProgressPercent(LastCallback(Pow2(25) + 5970), Pow2(25) + 5970) = 101

\* A build that ran its loop to the end.
BuildComplete ==
    /\ full.state \in {"building", "alive", "null"}
    /\ full.io \in {"ETCHASH_IO_MEMO_MISMATCH", "ETCHASH_IO_MEMO_SIZE_MISMATCH"}
    /\ Len(file.nodes) > 0
    /\ full.n = Len(file.nodes)

\* C6 as stated: a complete build calls the callback at most 100 times.
C6_AtMost100Calls == BuildComplete => full.calls <= 100

\* C6 as amended: a complete build with a callback calls it
\* 100 + ceil((max_n mod 100) / (max_n div 100)) times, which is 100 when
\* max_n is a multiple of 100 and never more than 199; without a callback
\* there is no call.
C6_CallCount ==
    BuildComplete =>
        LET max_n == Len(file.nodes)
            step == max_n \div 100
        IN  IF full.callback = "NULL" THEN full.calls = 0
            ELSE /\ step > 0
                 /\ full.calls = 100 + (((max_n % 100) + step - 1) \div step)
                 /\ full.calls <= 199
                 /\ max_n % 100 = 0 => full.calls = 100

\* A complete build whose node count is not a multiple of 100 and whose
\* callback was consulted.
C6_Witness ==
    /\ BuildComplete
    /\ full.callback # "NULL"
    /\ Len(file.nodes) % 100 # 0
    /\ full.calls > 100

\* C7: after the callback returned nonzero, etchash_full_new_internal has
\* returned NULL with the file closed, the whole mapping unmapped and the
\* context freed.
C7_CancelReleasesEverything ==
    full.cancelled =>
        /\ full.state = "null"
        /\ ~fileOpen
        /\ mapped = {}
        /\ "full" \notin heap

\* C8: when etchash_light_new_internal returns NULL, etchash_light_new
\* returns NULL and dereferences nothing.
C8_LightNewReturnsNull ==
    (lightCall.fn = "etchash_light_new" /\ lightCall.internal = "NULL") =>
        /\ lightCall.ret = "NULL"
        /\ proc # "segv"

\* C9: for a full_size that is not a multiple of the page size, hashing
\* returns success = false and reads no DAG node.
C9_InvalidSizeRejected ==
    \A r \in {lightRet, fullRet} :
        (r.outcome # "none" /\ r.full_size % PageBytes # 0) =>
            /\ r.outcome = "false"
            /\ r.dag_reads = 0

\* The number of Keccak-256 applications C10 states for a block.
ClaimedEpochs(block) ==
    IF block >= ETCHASH_ACTIVATION_BLOCK
    THEN ((block \div ETCHASH_NEW_EPOCH_LENGTH) * ETCHASH_NEW_EPOCH_LENGTH + 1)
            \div ETCHASH_EPOCH_LENGTH
    ELSE ((block \div ETCHASH_EPOCH_LENGTH) * ETCHASH_EPOCH_LENGTH + 1)
            \div ETCHASH_EPOCH_LENGTH

\* Keccak-256 applied k times to x: the first half of the applications,
\* then the rest.
RECURSIVE Keccak256Iter(_, _)
Keccak256Iter(x, k) ==
    IF k = 0 THEN x
    ELSE IF k = 1 THEN SHA3_256(x)
    ELSE LET half == Keccak256Iter(x, k \div 2)
         IN  IF Len(half) = H256_WORDS
             THEN Keccak256Iter(half, k - (k \div 2))
             ELSE half

Keccak256Times(k) == Keccak256Iter(ZeroH256, k)

\* Two blocks of one epoch: a contiguous range of one epoch length.
SameEpoch(a, b) ==
    /\ (a >= ETCHASH_ACTIVATION_BLOCK) = (b >= ETCHASH_ACTIVATION_BLOCK)
    /\ IF a >= ETCHASH_ACTIVATION_BLOCK
       THEN a \div ETCHASH_NEW_EPOCH_LENGTH = b \div ETCHASH_NEW_EPOCH_LENGTH
       ELSE a \div ETCHASH_EPOCH_LENGTH = b \div ETCHASH_EPOCH_LENGTH

\* C10: etchash_get_seedhash applies Keccak-256 to the zero value exactly
\* the stated number of times; the seed of block 0 is zero, the seed of
\* block EPOCH_LENGTH is the Keccak-256 of zero, two blocks of one epoch
\* have one seed, and the number of applications never decreases with the
\* block number.
C10_SeedRecurrence ==
    seed.pc = "done" =>
        /\ seed.i = ClaimedEpochs(seed.block)
        /\ seed.ret = Keccak256Times(ClaimedEpochs(seed.block))
        /\ seed.block = 0 => seed.ret = ZeroH256
        /\ seed.block = ETCHASH_EPOCH_LENGTH => seed.ret = SHA3_256(ZeroH256)
        /\ (seed.prev.done /\ SameEpoch(seed.prev.block, seed.block))
              => seed.prev.ret = seed.ret
        /\ (seed.prev.done /\ seed.prev.block <= seed.block)
              => seed.prev.i <= seed.i

\* A seed computed after the activation block, following one computed in
\* the last epoch before it.
C10_Witness ==
    /\ seed.pc = "done"
    /\ seed.block >= ETCHASH_ACTIVATION_BLOCK
    /\ seed.prev.done
    /\ seed.prev.block = ETCHASH_ACTIVATION_BLOCK - 1
    /\ seed.i > seed.prev.i

====
